---- MODULE Spec2Model ----
(***************************************************************************)
(* PawPals authentication pages (src/authentication.js).                   *)
(*                                                                         *)
(* One browser tab is modelled: the document it shows, the DOM state the   *)
(* script reads and writes, the timers the script has started, and the     *)
(* one localStorage key.  login.html, registration.html and                *)
(* ResetPassword.html each hold the elements of their own form and a       *)
(* notification container (goToLogin / goToRegister / goToReset navigate   *)
(* between them); homepage.html does not run this script.  The container   *)
(* of a form is in the document of its page and nowhere else.              *)
(*                                                                         *)
(* Strings are sequences of one-character strings.  Time is not counted:   *)
(* the timer queue keeps the order of creation and the delay of each       *)
(* timer, and a timer may fire only when no timer created before it has a  *)
(* delay less than or equal to its own, which is the order setTimeout      *)
(* guarantees whatever time passes between two events.                     *)
(***************************************************************************)
EXTENDS Integers, Sequences, FiniteSets, TLC

VARIABLES
    location,       \* the document shown: "login", "register", "reset", "home"
    loaded,         \* DOMContentLoaded has run AuthController.init on it
    pendingNav,     \* navigation started by an assignment to location.href
    arrival,        \* how the current document was reached
    storage,        \* localStorage['rememberedUsername']: NoKey or Stored(v)
    loginUsername,  \* #loginUsername.value
    rememberMe,     \* #rememberMe.checked
    fieldError,     \* the inline error elements: text and the 'show' class
    button,         \* the submit buttons: disabled, text hidden, spinner hidden
    forgotView,     \* 'hidden' class of the reset form, message and link
    timers,         \* the setTimeout callbacks that have not fired yet
    notifications,  \* children of #notificationContainer
    lastEvent,      \* history: the event handled by the last step
    lastLogin       \* history: the last login whose action succeeded

vars == <<location, loaded, pendingNav, arrival, storage, loginUsername,
          rememberMe, fieldError, button, forgotView, timers, notifications,
          lastEvent, lastLogin>>

----------------------------------------------------------------------------
(* Bounds *)

\* User events that can add a notification are taken only while fewer than
\* this many notifications are displayed.
MaxNotifications == 1

----------------------------------------------------------------------------
(* Program constants *)

LoginDelay == 1500
RegisterDelay == 2000
ForgotDelay == 1500
HomeDelay == 1500
RedirectDelay == 1500
NotificationDelay == 5000
UsernameMinLen == 3
UsernameMaxLen == 20
PasswordMinLen == 8

None == "<none>"
NoString == <<>>

\* localStorage['rememberedUsername']: absent, or holding a string
NoKey == [present |-> FALSE, value |-> NoString]
Stored(value) == [present |-> TRUE, value |-> value]

Pages == {"login", "register", "reset", "home"}
ScriptPages == {"login", "register", "reset"}
Buttons == {"loginBtn", "registerBtn", "forgotBtn"}
ErrorIds == {"loginUsernameError", "loginPasswordError", "registerUsernameError",
             "registerEmailError", "registerPasswordError", "confirmPasswordError",
             "termsError", "forgotEmailError"}

MsgUsernameRequired == "Username is required"
MsgUsernameFormat == "Username must be 3-20 characters, letters, numbers, and underscores only"
MsgEmailRequired == "Email is required"
MsgEmailFormat == "Please enter a valid email address"
MsgPasswordRequired == "Password is required"
MsgPasswordLength == "Password must be at least 8 characters long"
MsgPasswordComposition == "Password must contain both letters and numbers"
MsgPasswordMismatch == "Passwords do not match"
MsgTerms == "You must accept the terms to continue"
MsgLoginOk == "Login successful! Welcome back to PawPals!"
MsgLoginFail == "Login failed. Please check your credentials."
MsgRegisterOk == "Account created successfully! Welcome to PawPals!"
MsgRegisterFail == "Registration failed. Please try again."
MsgForgotOk == "Password reset link sent to your email!"
MsgForgotFail == "Failed to send reset link. Please try again."
MsgUnexpected == "An unexpected error occurred. Please refresh the page."

----------------------------------------------------------------------------
(* Strings *)

Letters == {"a","b","c","d","e","f","g","h","i","j","k","l","m","n","o","p","q",
            "r","s","t","u","v","w","x","y","z","A","B","C","D","E","F","G","H",
            "I","J","K","L","M","N","O","P","Q","R","S","T","U","V","W","X","Y","Z"}
Digits == {"0","1","2","3","4","5","6","7","8","9"}
Whitespace == {" ", "\t", "\n"}

RECURSIVE TrimLeft(_)
TrimLeft(s) ==
    IF s # <<>> /\ Head(s) \in Whitespace THEN TrimLeft(Tail(s)) ELSE s

RECURSIVE TrimRight(_)
TrimRight(s) ==
    IF s # <<>> /\ s[Len(s)] \in Whitespace
    THEN TrimRight(SubSeq(s, 1, Len(s) - 1)) ELSE s

\* A mutant of Trim: trailing whitespace is kept.
TrimLeftOnly(s) == TrimLeft(s)

\* String.prototype.trim
Trim(s) == TrimRight(TrimLeft(s))

\* A mutant of usernameRegex: no upper bound on the length.
usernameRegexUnbounded(s) ==
    /\ Len(s) >= UsernameMinLen
    /\ \A i \in 1..Len(s) : s[i] \in Letters \cup Digits \cup {"_"}

\* /^[a-zA-Z0-9_]{3,20}$/.test(s)
usernameRegex(s) ==
    /\ Len(s) >= UsernameMinLen
    /\ Len(s) <= UsernameMaxLen
    /\ \A i \in 1..Len(s) : s[i] \in Letters \cup Digits \cup {"_"}

\* [^\s@]+ matches s[a..b]
NoSpaceAt(s, a, b) ==
    /\ a <= b
    /\ \A i \in a..b : s[i] \notin Whitespace \cup {"@"}

\* A mutant of emailRegex: the domain and the tld hold no '.'.
emailRegexOneDot(s) ==
    \E i \in 1..Len(s) : \E j \in 1..Len(s) :
        /\ i < j
        /\ s[i] = "@"
        /\ s[j] = "."
        /\ NoSpaceAt(s, 1, i - 1)
        /\ NoSpaceAt(s, i + 1, j - 1)
        /\ NoSpaceAt(s, j + 1, Len(s))
        /\ \A k \in (i + 1)..Len(s) : k # j => s[k] # "."

\* /^[^\s@]+@[^\s@]+\.[^\s@]+$/.test(s)
emailRegex(s) ==
    \E i \in 1..Len(s) : \E j \in 1..Len(s) :
        /\ i < j
        /\ s[i] = "@"
        /\ s[j] = "."
        /\ NoSpaceAt(s, 1, i - 1)
        /\ NoSpaceAt(s, i + 1, j - 1)
        /\ NoSpaceAt(s, j + 1, Len(s))

\* .* matches s[a..b] ('.' matches no line terminator)
DotStar(s, a, b) == \A k \in a..b : s[k] # "\n"

\* /(?=.*[a-zA-Z])(?=.*[0-9])/.test(s)
passwordRegex(s) ==
    \E p \in 1..(Len(s) + 1) :
        /\ \E i \in p..Len(s) : s[i] \in Letters /\ DotStar(s, p, i - 1)
        /\ \E i \in p..Len(s) : s[i] \in Digits /\ DotStar(s, p, i - 1)

----------------------------------------------------------------------------
(* The DOM *)

\* The error elements each document holds.
ErrorElements(page) ==
    CASE page = "login" -> {"loginUsernameError", "loginPasswordError"}
      [] page = "register" -> {"registerUsernameError", "registerEmailError",
                               "registerPasswordError", "confirmPasswordError",
                               "termsError"}
      [] page = "reset" -> {"forgotEmailError"}
      [] OTHER -> {}

\* The form containers each document holds.
Containers(page) ==
    CASE page = "login" -> {"loginContainer"}
      [] page = "register" -> {"registerContainer"}
      [] OTHER -> {}

\* The class list of a container: the form is displayed when its page
\* opens, and no statement of the script adds or removes a class of it.
ContainerClassList(id) == {}

\* document.getElementById(id).classList.contains('hidden')
ContainerHidden(id) ==
    id \in Containers(location) /\ "hidden" \in ContainerClassList(id)

\* !document.getElementById(id).classList.contains('hidden')
ContainerVisible(id) ==
    id \in Containers(location) /\ "hidden" \notin ContainerClassList(id)

ClearError == [text |-> "", show |-> FALSE]
IdleButton == [disabled |-> FALSE, textHidden |-> FALSE, spinnerHidden |-> TRUE]
LoadingButton == [disabled |-> TRUE, textHidden |-> TRUE, spinnerHidden |-> FALSE]
FreshErrors == [e \in ErrorIds |-> ClearError]
FreshButtons == [b \in Buttons |-> IdleButton]
FreshForgotView == [formHidden |-> FALSE, messageHidden |-> TRUE, linkHidden |-> TRUE]
UserArrival == [via |-> "user", username |-> NoString]

\* showFieldError(elementId, message)
showFieldError(errors, elementId, message) ==
    IF elementId \in ErrorElements(location)
    THEN [errors EXCEPT ![elementId] = [text |-> message, show |-> TRUE]]
    ELSE errors

\* A mutant of clearFieldError: the class is removed, the text is left.
clearFieldErrorKeepsText(errors, elementId) ==
    IF elementId \in ErrorElements(location)
    THEN [errors EXCEPT ![elementId] = [text |-> errors[elementId].text,
                                        show |-> FALSE]]
    ELSE errors

\* clearFieldError(elementId)
clearFieldError(errors, elementId) ==
    IF elementId \in ErrorElements(location)
    THEN [errors EXCEPT ![elementId] = [text |-> "", show |-> FALSE]]
    ELSE errors

\* A mutant of validatePasswordConfirm: the error is never shown.
validatePasswordConfirmNeverShows(password, confirmPassword, errors) ==
    clearFieldError(errors, "confirmPasswordError")

\* A mutant of setLoadingState: the button is never disabled.
setLoadingStateKeepsEnabled(buttons, buttonId, isLoading) ==
    IF isLoading
    THEN [buttons EXCEPT ![buttonId] =
            [disabled |-> FALSE, textHidden |-> TRUE, spinnerHidden |-> FALSE]]
    ELSE [buttons EXCEPT ![buttonId] =
            [disabled |-> FALSE, textHidden |-> FALSE, spinnerHidden |-> TRUE]]

\* A mutant of setLoadingState: the spinner is not hidden again.
setLoadingStateKeepsSpinner(buttons, buttonId, isLoading) ==
    IF isLoading
    THEN [buttons EXCEPT ![buttonId] =
            [disabled |-> TRUE, textHidden |-> TRUE, spinnerHidden |-> FALSE]]
    ELSE [buttons EXCEPT ![buttonId] =
            [disabled |-> FALSE, textHidden |-> FALSE, spinnerHidden |-> FALSE]]

\* A mutant of setLoadingState: the button is not enabled again.
setLoadingStateStaysDisabled(buttons, buttonId, isLoading) ==
    [buttons EXCEPT ![buttonId] =
        [disabled |-> TRUE, textHidden |-> TRUE, spinnerHidden |-> FALSE]]

\* setLoadingState(buttonId, isLoading)
setLoadingState(buttons, buttonId, isLoading) ==
    IF isLoading
    THEN [buttons EXCEPT ![buttonId] =
            [disabled |-> TRUE, textHidden |-> TRUE, spinnerHidden |-> FALSE]]
    ELSE [buttons EXCEPT ![buttonId] =
            [disabled |-> FALSE, textHidden |-> FALSE, spinnerHidden |-> TRUE]]

----------------------------------------------------------------------------
(* Timers and notifications *)

\* setTimeout(callback, delay)
Timer(kind, delay, form, username, remember, raw, id) ==
    [kind |-> kind, delay |-> delay, form |-> form, username |-> username,
     rememberMe |-> remember, raw |-> raw, id |-> id]

\* The timer of simulateAPICall, with what the awaiting handler has captured
\* (raw and remember record the fields as they were at submit).
ApiTimer(form, delay, username, remember, raw) ==
    Timer("api", delay, form, username, remember, raw, 0)

Remove(seq, i) == SubSeq(seq, 1, i - 1) \o SubSeq(seq, i + 1, Len(seq))

\* setTimeout order: a timer fires before every later one of no smaller delay.
CanFire(i) == \A j \in 1..(i - 1) : timers[j].delay > timers[i].delay

\* showNotification(message, type), on ui = [n |-> notifications, t |-> timers].
\* The timer's callback holds a reference to the new element: id is the
\* element's position among the children of the container.
showNotification(ui, message, type) ==
    [n |-> Append(ui.n, [message |-> message, type |-> type]),
     t |-> Append(ui.t, Timer("expire", NotificationDelay, None, NoString,
                              FALSE, NoString, Len(ui.n) + 1))]

\* A mutant of removeNotification: the container is emptied.
removeNotificationAll(ns, id) == <<>>

\* notification.remove(): the children of the container without child id
removeNotification(ns, id) == Remove(ns, id)

\* The references of the remaining timers once child id has been removed.
Dereference(ts, id) ==
    [k \in 1..Len(ts) |->
        IF ts[k].kind = "expire" /\ ts[k].id > id
        THEN [ts[k] EXCEPT !.id = ts[k].id - 1]
        ELSE ts[k]]

\* A mutant of windowError: the listener shows nothing.
windowErrorSilent(ui) == ui

\* window 'error' listener
windowError(ui) == showNotification(ui, MsgUnexpected, "error")

----------------------------------------------------------------------------
(* Validators.  this is "AuthController" when the method is called on the  *)
(* class and "element" when it is called as an event listener that was     *)
(* registered unbound; arg is [isEvent, value].  The result is             *)
(* [ret, threw, errors].                                                   *)

Call(value) == [isEvent |-> FALSE, value |-> value]
Event(value) == [isEvent |-> TRUE, value |-> value]

\* this.showFieldError / this.clearFieldError inside a validator:
\* message = None clears.
ReportField(this, errorElementId, message, ret, errors) ==
    IF errorElementId = None
    THEN [ret |-> ret, threw |-> FALSE, errors |-> errors]
    ELSE IF this # "AuthController"
    THEN [ret |-> FALSE, threw |-> TRUE, errors |-> errors]
    ELSE [ret |-> ret, threw |-> FALSE,
          errors |-> IF message = None
                     THEN clearFieldError(errors, errorElementId)
                     ELSE showFieldError(errors, errorElementId, message)]

validateUsername(this, arg, errorElementIdArg, errors) ==
    LET username == IF arg.isEvent THEN Trim(arg.value) ELSE arg.value
        errorElementId == IF arg.isEvent THEN "registerUsernameError"
                          ELSE errorElementIdArg
    IN  IF username = NoString
        THEN ReportField(this, errorElementId, MsgUsernameRequired, FALSE, errors)
        ELSE IF ~usernameRegex(username)
        THEN ReportField(this, errorElementId, MsgUsernameFormat, FALSE, errors)
        ELSE ReportField(this, errorElementId, None, TRUE, errors)

validateEmail(this, arg, errorElementIdArg, errors) ==
    LET email == IF arg.isEvent THEN Trim(arg.value) ELSE arg.value
        errorElementId == IF arg.isEvent THEN "registerEmailError"
                          ELSE errorElementIdArg
    IN  IF email = NoString
        THEN ReportField(this, errorElementId, MsgEmailRequired, FALSE, errors)
        ELSE IF ~emailRegex(email)
        THEN ReportField(this, errorElementId, MsgEmailFormat, FALSE, errors)
        ELSE ReportField(this, errorElementId, None, TRUE, errors)

validatePassword(this, arg, errorElementIdArg, errors) ==
    LET password == arg.value
        errorElementId == IF arg.isEvent THEN "registerPasswordError"
                          ELSE errorElementIdArg
    IN  IF password = NoString
        THEN ReportField(this, errorElementId, MsgPasswordRequired, FALSE, errors)
        ELSE IF Len(password) < PasswordMinLen
        THEN ReportField(this, errorElementId, MsgPasswordLength, FALSE, errors)
        ELSE IF ~passwordRegex(password)
        THEN ReportField(this, errorElementId, MsgPasswordComposition, FALSE, errors)
        ELSE ReportField(this, errorElementId, None, TRUE, errors)

\* validatePasswordConfirm(e): password is #registerPassword.value
validatePasswordConfirm(password, confirmPassword, errors) ==
    IF confirmPassword # NoString /\ password # confirmPassword
    THEN showFieldError(errors, "confirmPasswordError", MsgPasswordMismatch)
    ELSE clearFieldError(errors, "confirmPasswordError")

\* A mutant of validateLoginForm: the password is checked only when the
\* username is present.
validateLoginFormShortCircuit(username, password, errors) ==
    IF username = NoString
    THEN [ret |-> FALSE,
          errors |-> showFieldError(errors, "loginUsernameError",
                                    MsgUsernameRequired)]
    ELSE LET e1 == clearFieldError(errors, "loginUsernameError")
             e2 == IF password = NoString
                   THEN showFieldError(e1, "loginPasswordError", MsgPasswordRequired)
                   ELSE clearFieldError(e1, "loginPasswordError")
         IN  [ret |-> password # NoString, errors |-> e2]

\* validateLoginForm(username, password): [ret, errors]
validateLoginForm(username, password, errors) ==
    LET e1 == IF username = NoString
              THEN showFieldError(errors, "loginUsernameError", MsgUsernameRequired)
              ELSE clearFieldError(errors, "loginUsernameError")
        e2 == IF password = NoString
              THEN showFieldError(e1, "loginPasswordError", MsgPasswordRequired)
              ELSE clearFieldError(e1, "loginPasswordError")
    IN  [ret |-> username # NoString /\ password # NoString, errors |-> e2]

\* A mutant of validateRegistrationForm: the checks stop at the first failure.
validateRegistrationFormShortCircuit(formData, errors) ==
    LET u == validateUsername("AuthController", Call(formData.username),
                              "registerUsernameError", errors)
        m == validateEmail("AuthController", Call(formData.email),
                           "registerEmailError", u.errors)
        p == validatePassword("AuthController", Call(formData.password),
                              "registerPasswordError", m.errors)
        c == IF formData.password # formData.confirmPassword
             THEN showFieldError(p.errors, "confirmPasswordError", MsgPasswordMismatch)
             ELSE clearFieldError(p.errors, "confirmPasswordError")
        t == IF ~formData.acceptTerms
             THEN showFieldError(c, "termsError", MsgTerms)
             ELSE clearFieldError(c, "termsError")
    IN  IF ~u.ret THEN [ret |-> FALSE, errors |-> u.errors]
        ELSE IF ~m.ret THEN [ret |-> FALSE, errors |-> m.errors]
        ELSE IF ~p.ret THEN [ret |-> FALSE, errors |-> p.errors]
        ELSE IF formData.password # formData.confirmPassword
        THEN [ret |-> FALSE, errors |-> c]
        ELSE [ret |-> formData.acceptTerms, errors |-> t]

\* validateRegistrationForm(formData): [ret, errors]
validateRegistrationForm(formData, errors) ==
    LET u == validateUsername("AuthController", Call(formData.username),
                              "registerUsernameError", errors)
        m == validateEmail("AuthController", Call(formData.email),
                           "registerEmailError", u.errors)
        p == validatePassword("AuthController", Call(formData.password),
                              "registerPasswordError", m.errors)
        c == IF formData.password # formData.confirmPassword
             THEN showFieldError(p.errors, "confirmPasswordError", MsgPasswordMismatch)
             ELSE clearFieldError(p.errors, "confirmPasswordError")
        t == IF ~formData.acceptTerms
             THEN showFieldError(c, "termsError", MsgTerms)
             ELSE clearFieldError(c, "termsError")
    IN  [ret |-> /\ u.ret /\ m.ret /\ p.ret
                 /\ formData.password = formData.confirmPassword
                 /\ formData.acceptTerms,
         errors |-> t]

----------------------------------------------------------------------------
(* What the user can type *)

UserAb == <<"a", "b">>
UserAbPadded == <<" ", "a", "b", " ">>
UserAbc == <<"a", "b", "c">>
UserAbcPadded == <<" ", "a", "b", "c", " ">>
UserBad == <<"a", "@", "c">>
EmailOk == <<"a", "@", "b", ".", "c">>
EmailOkPadded == <<" ", "a", "@", "b", ".", "c">>
EmailBad == <<"a", "@", "b">>
PasswordOk == <<"p", "a", "s", "s", "w", "o", "r", "1">>
PasswordOther == <<"p", "a", "s", "s", "w", "o", "r", "2">>
PasswordShort == <<"p", "w", "1">>
PasswordNoDigit == <<"p", "a", "s", "s", "w", "o", "r", "d">>

LoginUsernameInputs == {<<" ">>, UserAbPadded, UserAbc}
LoginPasswordInputs == {NoString, PasswordShort}

RegForm(username, email, password, confirmPassword, acceptTerms) ==
    [username |-> username, email |-> email, password |-> password,
     confirmPassword |-> confirmPassword, acceptTerms |-> acceptTerms]

\* Contents of the registration form at a submit (before .trim()).
RegisterInputs ==
    { RegForm(UserAbcPadded, EmailOkPadded, PasswordOk, PasswordOk, TRUE),
      RegForm(UserAb, EmailBad, PasswordOk, PasswordOk, TRUE),
      RegForm(UserBad, EmailOk, PasswordNoDigit, PasswordOk, FALSE),
      RegForm(UserAbc, EmailOk, PasswordOk, PasswordOther, TRUE),
      RegForm(UserAbc, EmailOk, PasswordShort, PasswordShort, TRUE),
      RegForm(UserAbc, EmailOk, PasswordOk, PasswordOk, FALSE),
      RegForm(NoString, NoString, NoString, NoString, FALSE) }

RegisterUsernameInputs == {UserAb, UserAbcPadded}
RegisterEmailInputs == {EmailBad, EmailOkPadded}
RegisterPasswordInputs == {PasswordNoDigit, PasswordOk}
ConfirmInputs == {NoString, PasswordOk}
ConfirmedInputs == {PasswordShort, PasswordOk}
ForgotEmailInputs == {<<" ">>, EmailBad, EmailOkPadded}

----------------------------------------------------------------------------
(* Pieces of the handlers *)

NoNav == [page |-> None, via |-> None, username |-> NoString]
Nav(page, via, username) == [page |-> page, via |-> via, username |-> username]
NoLogin == [some |-> FALSE, raw |-> NoString, rememberMe |-> FALSE]

FormButton(form) ==
    CASE form = "login" -> "loginBtn"
      [] form = "register" -> "registerBtn"
      [] form = "forgot" -> "forgotBtn"

\* A mutant of SubmitAborts: the early return is missing.
SubmitNeverAborts(valid) == FALSE

\* if (!this.validate...(...)) return;
SubmitAborts(valid) == ~valid

\* A mutant of LoginStorage: the username is stored whatever the checkbox.
LoginStorageIgnoresCheckbox(outcome, st, remember, username) ==
    IF outcome = "resolve" THEN Stored(username) ELSE st

\* A mutant of LoginStorage: a failed login removes the key.
LoginStorageClearsOnFailure(outcome, st, remember, username) ==
    IF outcome = "resolve"
    THEN IF remember THEN Stored(username) ELSE NoKey
    ELSE NoKey

\* handleLogin, try block and catch: the value of the storage key once the
\* simulated call has settled.
LoginStorage(outcome, st, remember, username) ==
    IF outcome = "resolve"
    THEN IF remember THEN Stored(username) ELSE NoKey
    ELSE st

\* A mutant of SettleNotice: the catch block shows the success message.
SettleNoticeAlwaysOk(form, outcome) ==
    CASE form = "login" -> [message |-> MsgLoginOk, type |-> "success"]
      [] form = "register" -> [message |-> MsgRegisterOk, type |-> "success"]
      [] form = "forgot" -> [message |-> MsgForgotOk, type |-> "success"]

\* The notification each handler shows once its simulated call has settled.
SettleNotice(form, outcome) ==
    CASE form = "login" /\ outcome = "resolve" -> [message |-> MsgLoginOk, type |-> "success"]
      [] form = "login" /\ outcome = "reject" -> [message |-> MsgLoginFail, type |-> "error"]
      [] form = "register" /\ outcome = "resolve" -> [message |-> MsgRegisterOk, type |-> "success"]
      [] form = "register" /\ outcome = "reject" -> [message |-> MsgRegisterFail, type |-> "error"]
      [] form = "forgot" /\ outcome = "resolve" -> [message |-> MsgForgotOk, type |-> "success"]
      [] form = "forgot" /\ outcome = "reject" -> [message |-> MsgForgotFail, type |-> "error"]

\* A mutant of FollowUp: the login handler starts the landing-page timer
\* whatever the outcome.
FollowUpAlsoOnFailure(ts, form, outcome, username) ==
    IF form = "login"
    THEN Append(ts, Timer("home", HomeDelay, form, NoString, FALSE, NoString, 0))
    ELSE IF outcome = "resolve" /\ form = "register"
    THEN Append(ts, Timer("redirect", RedirectDelay, form, username, FALSE, NoString, 0))
    ELSE ts

\* The setTimeout each handler starts after a successful call: the timer
\* queue ts with that timer appended.
FollowUp(ts, form, outcome, username) ==
    IF outcome = "resolve" /\ form = "login"
    THEN Append(ts, Timer("home", HomeDelay, form, NoString, FALSE, NoString, 0))
    ELSE IF outcome = "resolve" /\ form = "register"
    THEN Append(ts, Timer("redirect", RedirectDelay, form, username, FALSE, NoString, 0))
    ELSE ts

\* A mutant of ForgotViewAfter: the view is switched whatever the outcome.
ForgotViewAfterAnyOutcome(view, form, outcome) ==
    IF form = "forgot"
    THEN [formHidden |-> TRUE, messageHidden |-> FALSE, linkHidden |-> FALSE]
    ELSE view

\* handleForgotPassword, after the await: the three classList updates.
ForgotViewAfter(view, form, outcome) ==
    IF form = "forgot" /\ outcome = "resolve"
    THEN [formHidden |-> TRUE, messageHidden |-> FALSE, linkHidden |-> FALSE]
    ELSE view

\* A mutant of loadRememberedUser: the checkbox is left alone.
loadRememberedUserKeepsCheckbox(st, username, remember) ==
    IF st.present /\ st.value # NoString /\ location = "login"
    THEN [username |-> st.value, rememberMe |-> remember, threw |-> FALSE]
    ELSE [username |-> username, rememberMe |-> remember, threw |-> FALSE]

\* loadRememberedUser: [username, rememberMe, threw] from the stored key and
\* the fields; the login fields exist on the login page only.
loadRememberedUser(st, username, remember) ==
    IF st.present /\ st.value # NoString
    THEN IF location = "login"
         THEN [username |-> st.value, rememberMe |-> TRUE, threw |-> FALSE]
         ELSE [username |-> username, rememberMe |-> remember, threw |-> TRUE]
    ELSE [username |-> username, rememberMe |-> remember, threw |-> FALSE]

----------------------------------------------------------------------------
(* Initial state: login.html has just been opened, nothing is stored. *)

Init ==
    /\ location = "login"
    /\ loaded = FALSE
    /\ pendingNav = NoNav
    /\ arrival = UserArrival
    /\ storage = NoKey
    /\ loginUsername = NoString
    /\ rememberMe = FALSE
    /\ fieldError = FreshErrors
    /\ button = FreshButtons
    /\ forgotView = FreshForgotView
    /\ timers = <<>>
    /\ notifications = <<>>
    /\ lastEvent = [kind |-> "open"]
    /\ lastLogin = NoLogin

----------------------------------------------------------------------------
(* Page life cycle *)

\* document 'DOMContentLoaded': AuthController.init(), on a host other than
\* localhost and codespaces (AuthTests.runTests() is not called).
DOMContentLoaded ==
    /\ ~loaded
    /\ location \in ScriptPages
    /\ LET r == loadRememberedUser(storage, loginUsername, rememberMe)
           ui == IF r.threw
                 THEN windowError([n |-> notifications, t |-> timers])
                 ELSE [n |-> notifications, t |-> timers]
       IN  /\ loginUsername' = r.username
           /\ rememberMe' = r.rememberMe
           /\ notifications' = ui.n
           /\ timers' = ui.t
           /\ lastEvent' = [kind |-> "init", page |-> location, via |-> arrival.via,
                            username |-> arrival.username, threw |-> r.threw]
    /\ loaded' = TRUE
    /\ arrival' = UserArrival
    /\ UNCHANGED <<location, pendingNav, storage, fieldError, button, forgotView,
                   lastLogin>>

\* The pages a page links to: the login page to the two other forms, these
\* and the landing page back to the login page.
Links(page) == IF page = "login" THEN {"register", "reset"} ELSE {"login"}

\* goToLogin(), goToRegister(), goToReset() called from a link of the page
\* (or the user opening login.html from the landing page).
GoTo(page) ==
    /\ page \in Links(location)
    /\ loaded \/ location = "home"
    /\ pendingNav' = Nav(page, "user", NoString)
    /\ lastEvent' = [kind |-> "goto", page |-> page]
    /\ UNCHANGED <<location, loaded, arrival, storage, loginUsername, rememberMe,
                   fieldError, button, forgotView, timers, notifications, lastLogin>>

goToLogin == GoTo("login")
goToRegister == GoTo("register")
goToReset == GoTo("reset")

\* The navigation completes: the document, its timers and its DOM are
\* discarded and the target document is shown.
Unload ==
    /\ pendingNav.page # None
    /\ location' = pendingNav.page
    /\ loaded' = FALSE
    /\ arrival' = [via |-> pendingNav.via, username |-> pendingNav.username]
    /\ pendingNav' = NoNav
    /\ loginUsername' = NoString
    /\ rememberMe' = FALSE
    /\ fieldError' = FreshErrors
    /\ button' = FreshButtons
    /\ forgotView' = FreshForgotView
    /\ timers' = <<>>
    /\ notifications' = <<>>
    /\ lastEvent' = [kind |-> "unload"]
    /\ UNCHANGED <<storage, lastLogin>>

----------------------------------------------------------------------------
(* The user edits the login fields (no listener is attached to them). *)

TypeLoginUsername(value) ==
    /\ location = "login" /\ loaded
    /\ loginUsername' = value
    /\ lastEvent' = [kind |-> "edit"]
    /\ UNCHANGED <<location, loaded, pendingNav, arrival, storage, rememberMe,
                   fieldError, button, forgotView, timers, notifications, lastLogin>>

ToggleRememberMe ==
    /\ location = "login" /\ loaded
    /\ rememberMe' = ~rememberMe
    /\ lastEvent' = [kind |-> "edit"]
    /\ UNCHANGED <<location, loaded, pendingNav, arrival, storage, loginUsername,
                   fieldError, button, forgotView, timers, notifications, lastLogin>>

----------------------------------------------------------------------------
(* Submit events.  A form is submitted through its submit button, so only  *)
(* while that button is enabled (and the form displayed).                  *)

CanSubmit(form, page) ==
    /\ location = page /\ loaded
    /\ ~button[FormButton(form)].disabled
    /\ Len(notifications) <= MaxNotifications

\* The synchronous part of a submit handler after validation: either the
\* early return, or setLoadingState(btn, true) and simulateAPICall(delay).
Submitted(form, valid, errors, delay, username, remember, raw, data) ==
    /\ fieldError' = errors
    /\ lastEvent' = [kind |-> "submit", form |-> form, valid |-> valid,
                     data |-> data]
    /\ IF SubmitAborts(valid)
       THEN UNCHANGED <<button, timers>>
       ELSE /\ button' = setLoadingState(button, FormButton(form), TRUE)
            /\ timers' = Append(timers, ApiTimer(form, delay, username, remember, raw))
    /\ UNCHANGED <<location, loaded, pendingNav, arrival, storage, loginUsername,
                   rememberMe, forgotView, notifications, lastLogin>>

\* handleLogin(e), up to the await
handleLogin(password) ==
    /\ CanSubmit("login", "login")
    /\ LET username == Trim(loginUsername)
           v == validateLoginForm(username, password, fieldError)
       IN  Submitted("login", v.ret, v.errors, LoginDelay, username, rememberMe,
                     loginUsername, [username |-> loginUsername,
                                     password |-> password])

\* handleRegister(e), up to the await
handleRegister(form) ==
    /\ CanSubmit("register", "register")
    /\ LET formData == [form EXCEPT !.username = Trim(form.username),
                                    !.email = Trim(form.email)]
           v == validateRegistrationForm(formData, fieldError)
       IN  Submitted("register", v.ret, v.errors, RegisterDelay, formData.username,
                     FALSE, form.username, form)

\* handleForgotPassword(e), up to the await
handleForgotPassword(value) ==
    /\ CanSubmit("forgot", "reset")
    /\ ~forgotView.formHidden
    /\ LET email == Trim(value)
           v == validateEmail("AuthController", Call(email), "forgotEmailError",
                              fieldError)
       IN  Submitted("forgot", v.ret, v.errors, ForgotDelay, NoString, FALSE, value,
                     [email |-> value])

----------------------------------------------------------------------------
(* Input events of the registration fields *)

CanInput ==
    /\ location = "register" /\ loaded
    /\ Len(notifications) < MaxNotifications

\* The value of this inside a listener registered as this.validateX, without
\* bind: the element the listener is attached to.
ListenerThis == "element"

\* The listener has run with result r; an error it raised is reported to
\* the window 'error' listener.  password is what #registerPassword held if
\* the listener has read it.
Listened(field, value, password, r) ==
    LET ui == IF r.threw
              THEN windowError([n |-> notifications, t |-> timers])
              ELSE [n |-> notifications, t |-> timers]
    IN  /\ fieldError' = r.errors
        /\ notifications' = ui.n
        /\ timers' = ui.t
        /\ lastEvent' = [kind |-> "input", field |-> field, value |-> value,
                         password |-> password, threw |-> r.threw]
        /\ UNCHANGED <<location, loaded, pendingNav, arrival, storage, loginUsername,
                       rememberMe, button, forgotView, lastLogin>>

\* 'input' on #registerUsername
InputRegisterUsername(value) ==
    /\ CanInput
    /\ Listened("registerUsername", value, NoString,
                validateUsername(ListenerThis, Event(value), None, fieldError))

\* 'input' on #registerEmail
InputRegisterEmail(value) ==
    /\ CanInput
    /\ Listened("registerEmail", value, NoString,
                validateEmail(ListenerThis, Event(value), None, fieldError))

\* 'input' on #registerPassword
InputRegisterPassword(value) ==
    /\ CanInput
    /\ Listened("registerPassword", value, NoString,
                validatePassword(ListenerThis, Event(value), None, fieldError))

\* 'input' on #confirmPassword, while #registerPassword holds password
InputConfirmPassword(password, value) ==
    /\ CanInput
    /\ Listened("confirmPassword", value, password,
                [ret |-> TRUE, threw |-> FALSE,
                 errors |-> validatePasswordConfirm(password, value, fieldError)])

----------------------------------------------------------------------------
(* Timer callbacks *)

\* The timer of simulateAPICall fires, the promise settles and the awaiting
\* handler runs to its end (try or catch, then finally).
ApiSettles(i, outcome) ==
    /\ i \in 1..Len(timers)
    /\ timers[i].kind = "api"
    /\ CanFire(i)
    /\ LET t == timers[i]
           notice == SettleNotice(t.form, outcome)
           ui == showNotification([n |-> notifications, t |-> Remove(timers, i)],
                                  notice.message, notice.type)
       IN  /\ storage' = IF t.form = "login"
                         THEN LoginStorage(outcome, storage, t.rememberMe, t.username)
                         ELSE storage
           /\ forgotView' = ForgotViewAfter(forgotView, t.form, outcome)
           /\ notifications' = ui.n
           /\ timers' = FollowUp(ui.t, t.form, outcome, t.username)
           /\ button' = setLoadingState(button, FormButton(t.form), FALSE)
           /\ lastEvent' = [kind |-> "settle", form |-> t.form, outcome |-> outcome,
                            raw |-> t.raw, rememberMe |-> t.rememberMe]
           /\ lastLogin' = IF t.form = "login" /\ outcome = "resolve"
                           THEN [some |-> TRUE, raw |-> t.raw,
                                 rememberMe |-> t.rememberMe]
                           ELSE lastLogin
    /\ UNCHANGED <<location, loaded, pendingNav, arrival, loginUsername, rememberMe,
                   fieldError>>

\* Math.random() > 0.9
ApiRejects(i) == ApiSettles(i, "reject")
ApiResolves(i) == ApiSettles(i, "resolve")

\* handleLogin's timer: window.location.href = 'homepage.html'
HomeTimerFires(i) ==
    /\ i \in 1..Len(timers)
    /\ timers[i].kind = "home"
    /\ CanFire(i)
    /\ timers' = Remove(timers, i)
    /\ pendingNav' = Nav("home", "login", NoString)
    /\ lastEvent' = [kind |-> "timer", timer |-> "home", threw |-> FALSE]
    /\ UNCHANGED <<location, loaded, arrival, storage, loginUsername, rememberMe,
                   fieldError, button, forgotView, notifications, lastLogin>>

\* handleRegister's timer: this.goToLogin(), then
\* document.getElementById('loginUsername').value = formData.username
\* in the document that runs the callback.
RedirectTimerFires(i) ==
    /\ i \in 1..Len(timers)
    /\ timers[i].kind = "redirect"
    /\ CanFire(i)
    /\ pendingNav' = Nav("login", "redirect", timers[i].username)
    /\ LET threw == location # "login"
           rest == [n |-> notifications, t |-> Remove(timers, i)]
           ui == IF threw THEN windowError(rest) ELSE rest
       IN  /\ loginUsername' = IF threw THEN loginUsername ELSE timers[i].username
           /\ notifications' = ui.n
           /\ timers' = ui.t
           /\ lastEvent' = [kind |-> "timer", timer |-> "redirect",
                            threw |-> threw]
    /\ UNCHANGED <<location, loaded, arrival, storage, rememberMe, fieldError,
                   button, forgotView, lastLogin>>

\* showNotification's timer: notification.remove()
NotificationExpires(i) ==
    /\ i \in 1..Len(timers)
    /\ timers[i].kind = "expire"
    /\ CanFire(i)
    /\ timers' = Dereference(Remove(timers, i), timers[i].id)
    /\ notifications' = removeNotification(notifications, timers[i].id)
    /\ lastEvent' = [kind |-> "expire"]
    /\ UNCHANGED <<location, loaded, pendingNav, arrival, storage, loginUsername,
                   rememberMe, fieldError, button, forgotView, lastLogin>>

TimerFires ==
    \E i \in 1..Len(timers) :
        \/ ApiRejects(i)
        \/ ApiResolves(i)
        \/ HomeTimerFires(i)
        \/ RedirectTimerFires(i)
        \/ NotificationExpires(i)

----------------------------------------------------------------------------

Next ==
    \/ DOMContentLoaded
    \/ goToLogin
    \/ goToRegister
    \/ goToReset
    \/ Unload
    \/ \E value \in LoginUsernameInputs : TypeLoginUsername(value)
    \/ ToggleRememberMe
    \/ \E password \in LoginPasswordInputs : handleLogin(password)
    \/ \E form \in RegisterInputs : handleRegister(form)
    \/ \E value \in ForgotEmailInputs : handleForgotPassword(value)
    \/ \E value \in RegisterUsernameInputs : InputRegisterUsername(value)
    \/ \E value \in RegisterEmailInputs : InputRegisterEmail(value)
    \/ \E value \in RegisterPasswordInputs : InputRegisterPassword(value)
    \/ \E password \in ConfirmedInputs : \E value \in ConfirmInputs :
          InputConfirmPassword(password, value)
    \/ TimerFires

Spec == Init /\ [][Next]_vars

\* Timers that may fire do fire, and a navigation that has started completes.
FairSpec == Spec /\ WF_vars(TimerFires) /\ WF_vars(Unload)

----------------------------------------------------------------------------
(* The validators called on the class with a string and no error element, *)
(* as AuthTests calls them: AuthController.validateX(s).                   *)

MaxPad == 21
MaxTail == 2
MaxEmailLen == 6

\* String.prototype.repeat
Repeat(c, n) == [i \in 1..n |-> c]

\* The strings of at most n characters drawn from chars.
Strings(chars, n) == UNION {[1..k -> chars] : k \in 0..n}

UsernameChars == {"a", "Z", "7", "_", "@", "-", " "}
PasswordChars == {"a", "1", "!", "\n"}
EmailChars == {"a", "@", "."}

\* Arguments of validateUsername: a run of letters of any length up to
\* MaxPad, with any character before and after it.
UsernameArgs ==
    { t1 \o Repeat("a", n) \o t2 :
        t1 \in Strings(UsernameChars, 1), n \in 0..MaxPad,
        t2 \in Strings(UsernameChars, 1) }

\* Arguments of validatePassword: a run of letters or of digits of any
\* length up to MaxPad, with any MaxTail characters after it.
PasswordArgs ==
    { Repeat(c, n) \o t :
        c \in {"a", "1"}, n \in 0..MaxPad, t \in Strings(PasswordChars, MaxTail) }

\* Arguments of validateEmail
EmailArgs == Strings(EmailChars, MaxEmailLen)

ValidatorArgs ==
    {[kind |-> "arg", fn |-> "validateUsername", value |-> s] : s \in UsernameArgs}
    \cup {[kind |-> "arg", fn |-> "validatePassword", value |-> s] : s \in PasswordArgs}
    \cup {[kind |-> "arg", fn |-> "validateEmail", value |-> s] : s \in EmailArgs}

\* The page is open and a string is about to be handed to a validator.
ValidatorInit ==
    /\ location = "login"
    /\ loaded = FALSE
    /\ pendingNav = NoNav
    /\ arrival = UserArrival
    /\ storage = NoKey
    /\ loginUsername = NoString
    /\ rememberMe = FALSE
    /\ fieldError = FreshErrors
    /\ button = FreshButtons
    /\ forgotView = FreshForgotView
    /\ timers = <<>>
    /\ notifications = <<>>
    /\ lastEvent \in ValidatorArgs
    /\ lastLogin = NoLogin

\* The call has returned r = [ret, threw, errors].
Returned(r) ==
    /\ lastEvent' = [kind |-> "call", fn |-> lastEvent.fn,
                     value |-> lastEvent.value, ret |-> r.ret]
    /\ fieldError' = r.errors
    /\ UNCHANGED <<location, loaded, pendingNav, arrival, storage, loginUsername,
                   rememberMe, button, forgotView, timers, notifications, lastLogin>>

\* AuthController.validateUsername(s)
CallValidateUsername ==
    /\ lastEvent.kind = "arg" /\ lastEvent.fn = "validateUsername"
    /\ Returned(validateUsername("AuthController", Call(lastEvent.value), None,
                                 fieldError))

\* AuthController.validateEmail(s)
CallValidateEmail ==
    /\ lastEvent.kind = "arg" /\ lastEvent.fn = "validateEmail"
    /\ Returned(validateEmail("AuthController", Call(lastEvent.value), None,
                              fieldError))

\* AuthController.validatePassword(s)
CallValidatePassword ==
    /\ lastEvent.kind = "arg" /\ lastEvent.fn = "validatePassword"
    /\ Returned(validatePassword("AuthController", Call(lastEvent.value), None,
                                 fieldError))

ValidatorNext ==
    \/ CallValidateUsername
    \/ CallValidateEmail
    \/ CallValidatePassword

ValidatorSpec == ValidatorInit /\ [][ValidatorNext]_vars

----------------------------------------------------------------------------
(* Properties *)

Forms == {"login", "register", "forgot"}

\* The pending simulated API calls of a form.
Calls(form) ==
    {i \in 1..Len(timers) : timers[i].kind = "api" /\ timers[i].form = form}

Submitting(form) == Calls(form) # {}

Count(ns, type) == Cardinality({k \in 1..Len(ns) : ns[k].type = type})

NavTimers(ts) == {k \in 1..Len(ts) : ts[k].kind \in {"home", "redirect"}}

\* C1: a submit whose full-form validation fails leaves the form Idle: no
\* simulated call is started, the button, the notifications, the pending
\* navigations and the storage key are unchanged; only the inline field
\* errors may change.
C1_RejectedSubmitStaysIdle ==
    [][ (lastEvent'.kind = "submit" /\ ~lastEvent'.valid) =>
            /\ UNCHANGED <<timers, button, notifications, pendingNav, storage>>
            /\ UNCHANGED <<location, loaded, loginUsername, rememberMe, forgotView>>
            /\ \A form \in Forms : ~Submitting(form) => ~Submitting(form)' ]_vars

C1_Witness ==
    /\ lastEvent.kind = "submit" /\ lastEvent.form = "register" /\ ~lastEvent.valid
    /\ fieldError["termsError"].show
    /\ button["registerBtn"] = IdleButton
    /\ timers = <<>>

\* C2: a form has an outstanding simulated call exactly when its submit button
\* is disabled, its text hidden and its spinner visible; otherwise the button
\* is enabled, the text visible and the spinner hidden.
C2_LoadingIffSubmitting ==
    \A form \in Forms :
        IF Submitting(form)
        THEN button[FormButton(form)] = LoadingButton
        ELSE button[FormButton(form)] = IdleButton

C2_Witness ==
    /\ Submitting("forgot")
    /\ button["forgotBtn"] = LoadingButton
    /\ button["loginBtn"] = IdleButton

\* C3 as stated: unless the user leaves the page, a started delay always
\* resolves or rejects, that is, a pending simulated call leaves the timer
\* queue only by settling.
C3_StartedDelaySettles ==
    [][ \A form \in Forms :
            (Submitting(form) /\ ~Submitting(form)') =>
                \/ lastEvent'.kind = "settle" /\ lastEvent'.form = form
                \/ lastEvent'.kind = "unload" /\ arrival'.via = "user" ]_vars

\* C3 as amended: a form that is Submitting eventually leaves that state,
\* either because its call settled and the handler reset the button, or
\* because the document was unloaded by a navigation.
C3_SubmittingEnds ==
    \A form \in Forms :
        Submitting(form) ~>
            \/ /\ lastEvent.kind = "settle" /\ lastEvent.form = form
               /\ button[FormButton(form)] = IdleButton
            \/ lastEvent.kind = "unload"

C3_Witness ==
    /\ lastEvent.kind = "settle" /\ lastEvent.form = "register"
    /\ lastEvent.outcome = "reject"
    /\ button["registerBtn"] = IdleButton
    /\ pendingNav = NoNav

\* C4: each form has at most one pending simulated API call at any time.
C4_OneCallPerForm ==
    \A form \in Forms : Cardinality(Calls(form)) <= 1

\* A second login submission is in flight after an earlier one has succeeded.
C4_Witness ==
    /\ location = "login"
    /\ lastLogin.some
    /\ Cardinality(Calls("login")) = 1
    /\ button["loginBtn"].disabled

\* C5: after a login whose simulated call succeeded the storage key holds the
\* trimmed username of the submit if remember-me was checked at the submit,
\* and is absent if it was not.
C5_RememberedAfterLogin ==
    (lastEvent.kind = "settle" /\ lastEvent.form = "login"
        /\ lastEvent.outcome = "resolve") =>
            storage = IF lastEvent.rememberMe
                      THEN Stored(Trim(lastEvent.raw))
                      ELSE NoKey

C5_Witness ==
    /\ lastEvent.kind = "settle" /\ lastEvent.form = "login"
    /\ lastEvent.outcome = "resolve" /\ lastEvent.rememberMe
    /\ lastEvent.raw = UserAbPadded
    /\ storage = Stored(UserAb)
    /\ loginUsername = UserAbc

\* C6: the storage key changes only in the step that settles a login
\* submission successfully.
C6_OnlyLoginSuccessWrites ==
    [][ storage' # storage =>
            /\ lastEvent'.kind = "settle"
            /\ lastEvent'.form = "login"
            /\ lastEvent'.outcome = "resolve" ]_vars

\* A failed login has left the stored username in place.
C6_Witness ==
    /\ lastEvent.kind = "settle" /\ lastEvent.form = "login"
    /\ lastEvent.outcome = "reject" /\ ~lastEvent.rememberMe
    /\ storage = Stored(UserAb)

\* C7: the initialisation of the login page that follows a successful login
\* pre-fills the username field with the trimmed username and checks the box
\* if that login had remember-me checked, and leaves both as the document
\* has them (empty, unchecked) if it had not.
C7_RoundTrip ==
    (lastEvent.kind = "init" /\ lastEvent.page = "login" /\ lastLogin.some) =>
        IF lastLogin.rememberMe
        THEN loginUsername = Trim(lastLogin.raw) /\ rememberMe
        ELSE loginUsername = NoString /\ ~rememberMe

C7_Witness ==
    /\ lastEvent.kind = "init" /\ lastEvent.page = "login"
    /\ lastLogin.some /\ lastLogin.rememberMe /\ lastLogin.raw = UserAbPadded
    /\ loginUsername = UserAb /\ rememberMe

\* C8: when the login page has been initialised after the redirect that
\* follows a successful registration, its username field holds the
\* registered username.
C8_RedirectPrefillsUsername ==
    (lastEvent.kind = "init" /\ lastEvent.page = "login"
        /\ lastEvent.via = "redirect") =>
            loginUsername = lastEvent.username

\* C9: the step that settles a submission shows exactly one notification,
\* an error for a failed call and a success for a succeeded one, and resets
\* the loading state; after a failure no call and no navigation is started,
\* the storage key and the reset page's view are unchanged, and the reset
\* form is visible with its success message hidden.
C9_SettleShowsOneNotification ==
    [][ \A form \in Forms : (lastEvent'.kind = "settle" /\ lastEvent'.form = form) =>
          LET ok == lastEvent'.outcome = "resolve"
              shown == notifications'[Len(notifications')]
          IN  /\ Len(notifications') = Len(notifications) + 1
              /\ SubSeq(notifications', 1, Len(notifications)) = notifications
              /\ shown.type = IF ok THEN "success" ELSE "error"
              /\ Count(notifications', "success") =
                    Count(notifications, "success") + (IF ok THEN 1 ELSE 0)
              /\ button'[FormButton(form)] = IdleButton
              /\ ~ok =>
                    /\ shown.message \in {MsgLoginFail, MsgRegisterFail, MsgForgotFail}
                    /\ ~Submitting(form)'
                    /\ Cardinality(NavTimers(timers')) = Cardinality(NavTimers(timers))
                    /\ UNCHANGED <<pendingNav, storage, forgotView, location>>
                    /\ form = "forgot" =>
                          ~forgotView'.formHidden /\ forgotView'.messageHidden ]_vars

C9_Witness ==
    /\ lastEvent.kind = "settle" /\ lastEvent.form = "forgot"
    /\ lastEvent.outcome = "reject"
    /\ Len(notifications) = 1
    /\ notifications[1].message = MsgForgotFail
    /\ button["forgotBtn"] = IdleButton
    /\ ~forgotView.formHidden

\* What a field's error element shows once its validator has run on value.
Validated(field, value) ==
    CASE field = "registerUsername" ->
            validateUsername("AuthController", Call(Trim(value)),
                "registerUsernameError", FreshErrors)["errors"]["registerUsernameError"]
      [] field = "registerEmail" ->
            validateEmail("AuthController", Call(Trim(value)),
                "registerEmailError", FreshErrors)["errors"]["registerEmailError"]
      [] field = "registerPassword" ->
            validatePassword("AuthController", Call(value),
                "registerPasswordError", FreshErrors)["errors"]["registerPasswordError"]

\* C10: after an input event on the registration username, email or password
\* field the field's error element shows what its validator reports for the
\* field's value, and the listener has raised no error.
C10_InputListenerValidates ==
    (lastEvent.kind = "input"
        /\ lastEvent.field \in {"registerUsername", "registerEmail",
                                "registerPassword"}) =>
            /\ ~lastEvent.threw
            /\ fieldError[lastEvent.field \o "Error"] =
                  Validated(lastEvent.field, lastEvent.value)

\* The value and the result of the last direct call of validator fn.
Called(fn) == lastEvent.kind = "call" /\ lastEvent.fn = fn

\* C11: validateUsername(s) is true exactly when s consists of 3 to 20
\* characters, each a letter, a digit or an underscore; so it is false for
\* the empty string, a shorter or longer string, and any other character.
C11_UsernameRule ==
    Called("validateUsername") =>
        LET s == lastEvent.value
        IN  lastEvent.ret =
                (/\ Len(s) \in 3..20
                 /\ \A i \in 1..Len(s) : s[i] \in Letters \cup Digits \cup {"_"})

C11_Witness ==
    /\ Called("validateUsername")
    /\ Len(lastEvent.value) = 20
    /\ lastEvent.ret

\* C12: validatePassword(p) is true exactly when p has at least 8 characters,
\* one of them a letter and one of them a digit, whatever else p contains.
C12_PasswordRule ==
    Called("validatePassword") =>
        LET p == lastEvent.value
        IN  lastEvent.ret =
                (/\ Len(p) >= 8
                 /\ \E i \in 1..Len(p) : p[i] \in Letters
                 /\ \E i \in 1..Len(p) : p[i] \in Digits)

\* A non-empty part of an address: no whitespace and no '@'.
AddressPart(x) == x # <<>> /\ \A k \in 1..Len(x) : x[k] \notin Whitespace \cup {"@"}

\* s is local@domain.tld
LocalAtDomainDotTld(s) ==
    \E i \in 1..Len(s) : \E j \in (i + 1)..Len(s) :
        /\ s[i] = "@" /\ s[j] = "."
        /\ AddressPart(SubSeq(s, 1, i - 1))
        /\ AddressPart(SubSeq(s, i + 1, j - 1))
        /\ AddressPart(SubSeq(s, j + 1, Len(s)))

\* C13: validateEmail(s) is true for every s of the form local@domain.tld
\* whose three parts are non-empty and hold no whitespace and no '@'; it is
\* false for the empty string, for a string without '@' and for a string
\* whose local part is empty.
C13_EmailRule ==
    Called("validateEmail") =>
        LET s == lastEvent.value
        IN  /\ LocalAtDomainDotTld(s) => lastEvent.ret
            /\ (\/ s = <<>>
                \/ \A i \in 1..Len(s) : s[i] # "@"
                \/ s[1] = "@") => ~lastEvent.ret

C13_Witness ==
    /\ Called("validateEmail")
    /\ lastEvent.value = <<"a", "@", ".", "a", ".", "a">>
    /\ lastEvent.ret

\* The registration form's password and confirmation as a step reads them:
\* the input event of the confirmation field, or a registration submit.
ConfirmChecked(e) ==
    \/ e.kind = "input" /\ e.field = "confirmPassword"
    \/ e.kind = "submit" /\ e.form = "register"

PasswordRead(e) == IF e.kind = "input" THEN e.password ELSE e.data.password
ConfirmRead(e) == IF e.kind = "input" THEN e.value ELSE e.data.confirmPassword

\* C14: whenever the confirm-password check runs (input event of the
\* confirmation field, registration submit), an equal password and
\* confirmation leave the confirm-password error cleared and a non-empty
\* confirmation that differs from the password shows 'Passwords do not match'.
C14_ConfirmCheck ==
    [][ConfirmChecked(lastEvent') =>
          /\ PasswordRead(lastEvent') = ConfirmRead(lastEvent') =>
                fieldError'["confirmPasswordError"] = ClearError
          /\ (ConfirmRead(lastEvent') # NoString
                /\ PasswordRead(lastEvent') # ConfirmRead(lastEvent')) =>
                fieldError'["confirmPasswordError"] =
                    [text |-> MsgPasswordMismatch, show |-> TRUE]]_vars

C14_Witness ==
    /\ lastEvent.kind = "input" /\ lastEvent.field = "confirmPassword"
    /\ lastEvent.value = PasswordOk /\ lastEvent.password = PasswordShort
    /\ fieldError["confirmPasswordError"].show

\* C15: on every error element of the document, in every state the page
\* reaches: clearFieldError on a clear element changes nothing; showing a
\* message twice leaves what showing it once leaves; and clearFieldError
\* after one or more shows leaves the element clear (no text, no class) and
\* the other elements as they were.
C15_FieldErrorIdempotent ==
    \A id \in ErrorElements(location) :
        \A m \in {MsgUsernameRequired, MsgPasswordMismatch} :
            LET once == showFieldError(fieldError, id, m)
                twice == showFieldError(once, id, m)
                other == showFieldError(once, id, MsgTerms)
            IN  /\ fieldError[id] = ClearError =>
                      clearFieldError(fieldError, id) = fieldError
                /\ once[id] = [text |-> m, show |-> TRUE]
                /\ twice = once
                /\ \A e \in {once, twice, other} :
                      clearFieldError(e, id) =
                          [fieldError EXCEPT ![id] = ClearError]

C15_Witness ==
    /\ location = "register"
    /\ lastEvent.kind = "submit" /\ ~lastEvent.valid
    /\ fieldError["registerUsernameError"].show
    /\ fieldError["registerEmailError"] = ClearError

\* C16: when goToRegister() returns the login container is hidden and the
\* register container is visible; when goToLogin() returns the login
\* container is visible and the register container is hidden.
C16_FormSwitching ==
    [][lastEvent'.kind = "goto" =>
          /\ lastEvent'.page = "register" =>
                /\ ContainerHidden("loginContainer")'
                /\ ContainerVisible("registerContainer")'
          /\ lastEvent'.page = "login" =>
                /\ ContainerVisible("loginContainer")'
                /\ ContainerHidden("registerContainer")']_vars

\* The handler (listener or timer callback) run by the step that led to e
\* has raised an error that nothing caught.
Raised(e) == e.kind \in {"init", "input", "timer"} /\ e.threw

Shows(e) == e.kind = "settle" \/ Raised(e)

\* The timers that hold a reference to notification k.
ExpiryTimers(ts, k) == {i \in 1..Len(ts) : ts[i].kind = "expire" /\ ts[i].id = k}

\* What C18 says of single steps: a call of showNotification leaves the
\* notifications displayed as they are and adds one at the end, with one
\* timer of its own; the step of an expiry timer removes the notification
\* the timer was created with, the oldest displayed, and no other; an unload
\* discards the document's notifications; no other step changes them.
NotificationSteps ==
    /\ \A k \in 1..Len(notifications') :
          Cardinality(ExpiryTimers(timers', k)) = 1
    /\ CASE Shows(lastEvent') ->
              /\ Len(notifications') = Len(notifications) + 1
              /\ SubSeq(notifications', 1, Len(notifications)) = notifications
         [] lastEvent'.kind = "expire" ->
              /\ notifications # <<>>
              /\ notifications' = Tail(notifications)
         [] lastEvent'.kind = "unload" -> notifications' = <<>>
         [] OTHER -> notifications' = notifications

\* C18 as stated: every notification is removed by its own expiry timer,
\* that is, unless the user leaves the page, a notification leaves the
\* display only in the step of an expiry timer.
C18_RemovedByOwnTimer ==
    [][Len(notifications') < Len(notifications) =>
          \/ lastEvent'.kind = "expire"
          \/ lastEvent'.kind = "unload" /\ arrival'.via = "user"]_vars

\* C18 as amended: each showNotification call adds exactly one notification
\* and leaves the others alone, the removal of one removes no other, and
\* notifications do not stay displayed for ever: either the display ends up
\* empty for good, or again and again a step removes the oldest notification
\* displayed (its own expiry timer fires) or all of them (the document is
\* unloaded).
C18_NotificationsExpire ==
    /\ [][NotificationSteps]_vars
    /\ \/ <>[](notifications = <<>>)
       \/ []<><<Len(notifications') < Len(notifications)
                  /\ lastEvent'.kind \in {"expire", "unload"}>>_vars

C18_Witness ==
    /\ lastEvent.kind = "expire"
    /\ Len(notifications) = 1
    /\ notifications[1].message = MsgUnexpected
    /\ Cardinality(ExpiryTimers(timers, 1)) = 1

\* The five conditions of a registration, by the error element of each, for
\* the form contents d as the user left them.
RegistrationConditions(d) ==
    [registerUsernameError |->
        validateUsername("AuthController", Call(Trim(d.username)), None,
                         FreshErrors).ret,
     registerEmailError |->
        validateEmail("AuthController", Call(Trim(d.email)), None,
                      FreshErrors).ret,
     registerPasswordError |->
        validatePassword("AuthController", Call(d.password), None,
                         FreshErrors).ret,
     confirmPasswordError |-> d.password = d.confirmPassword,
     termsError |-> d.acceptTerms]

\* C19: a registration submit starts the simulated action exactly when the
\* trimmed username passes the username rule, the trimmed email the email
\* rule, the password the password rule, the confirmation equals the
\* password and the terms are accepted; otherwise nothing starts and each of
\* the five error elements is shown exactly when its own condition failed
\* and is clear when it held.
C19_RegistrationConditions ==
    [][(lastEvent'.kind = "submit" /\ lastEvent'.form = "register") =>
          LET cond == RegistrationConditions(lastEvent'.data)
              all == \A id \in DOMAIN cond : cond[id]
          IN  /\ all =>
                    /\ timers' = Append(timers,
                          ApiTimer("register", RegisterDelay,
                                   Trim(lastEvent'.data.username), FALSE,
                                   lastEvent'.data.username))
                    /\ button'["registerBtn"] = LoadingButton
              /\ ~all => timers' = timers /\ button' = button
              /\ \A id \in DOMAIN cond :
                    /\ fieldError'[id].show = ~cond[id]
                    /\ cond[id] => fieldError'[id] = ClearError]_vars

C19_Witness ==
    /\ lastEvent.kind = "submit" /\ lastEvent.form = "register"
    /\ ~lastEvent.valid
    /\ lastEvent.data.username = UserBad
    /\ fieldError["registerUsernameError"].show
    /\ fieldError["registerEmailError"] = ClearError
    /\ fieldError["registerPasswordError"].show
    /\ fieldError["confirmPasswordError"].show
    /\ fieldError["termsError"].show
    /\ button["registerBtn"] = IdleButton

\* The pending landing-page timers.
HomeTimers(ts) == {k \in 1..Len(ts) : ts[k].kind = "home"}

LoginSucceeded(e) ==
    e.kind = "settle" /\ e.form = "login" /\ e.outcome = "resolve"

\* C20: the step in which a login succeeds updates the storage key, shows
\* the success notification (whose timer is created before the landing-page
\* timer), re-enables the submit button and starts no navigation; the
\* navigation to the landing page starts only in a later step, that of the
\* landing-page timer, which only a successful login creates; and the landing
\* page is shown only once that navigation completes.
C20_LoginOrder ==
    [][/\ LoginSucceeded(lastEvent') =>
            LET n == Len(timers')
            IN  /\ storage' = IF lastEvent'.rememberMe
                              THEN Stored(Trim(lastEvent'.raw))
                              ELSE NoKey
                /\ notifications' = Append(notifications,
                                           [message |-> MsgLoginOk,
                                            type |-> "success"])
                /\ button'["loginBtn"] = IdleButton
                /\ timers'[n].kind = "home"
                /\ timers'[n - 1].kind = "expire"
                /\ timers'[n - 1].id = Len(notifications')
                /\ pendingNav' = pendingNav
                /\ location' = location
       /\ Cardinality(HomeTimers(timers')) > Cardinality(HomeTimers(timers)) =>
            LoginSucceeded(lastEvent')
       /\ (pendingNav'.page = "home" /\ pendingNav.page # "home") =>
            /\ lastEvent'.kind = "timer" /\ lastEvent'.timer = "home"
            /\ HomeTimers(timers) # {}
            /\ lastLogin.some
       /\ (location' = "home" /\ location # "home") =>
            /\ lastEvent'.kind = "unload"
            /\ pendingNav.page = "home"]_vars

\* A login has been submitted and accepted between the success of an earlier
\* one and its navigation.
C20_Witness ==
    /\ lastEvent.kind = "submit" /\ lastEvent.form = "login" /\ lastEvent.valid
    /\ Submitting("login")
    /\ HomeTimers(timers) # {}
    /\ pendingNav = NoNav
    /\ lastLogin.some

\* s holds a character that is not whitespace.
NonBlank(s) == \E i \in 1..Len(s) : s[i] \notin Whitespace

\* C21: a login submit starts the simulated action exactly when the username
\* field holds more than whitespace and the password field is not empty,
\* whatever their format; the username error is shown exactly when the
\* trimmed username is empty and the password error exactly when the
\* password is empty, each whatever the other field holds.
C21_LoginConditions ==
    [][(lastEvent'.kind = "submit" /\ lastEvent'.form = "login") =>
          LET d == lastEvent'.data
              hasUsername == NonBlank(d.username)
              hasPassword == d.password # NoString
          IN  /\ (hasUsername /\ hasPassword) =>
                    /\ timers' = Append(timers,
                          ApiTimer("login", LoginDelay, Trim(d.username),
                                   rememberMe, d.username))
                    /\ button'["loginBtn"] = LoadingButton
              /\ ~(hasUsername /\ hasPassword) =>
                    timers' = timers /\ button' = button
              /\ fieldError'["loginUsernameError"] =
                    IF hasUsername THEN ClearError
                    ELSE [text |-> MsgUsernameRequired, show |-> TRUE]
              /\ fieldError'["loginPasswordError"] =
                    IF hasPassword THEN ClearError
                    ELSE [text |-> MsgPasswordRequired, show |-> TRUE]]_vars

\* A username too short for the registration rule and a password too short
\* for the password rule have started a login.
C21_Witness ==
    /\ lastEvent.kind = "submit" /\ lastEvent.form = "login"
    /\ lastEvent.data.username = UserAbPadded
    /\ lastEvent.data.password = PasswordShort
    /\ Submitting("login")
    /\ button["loginBtn"] = LoadingButton

\* C22: the 'rememberedUsername' key is absent, or it holds a non-empty string
\* that neither starts nor ends with whitespace and is the trimmed username
\* of the most recent successful login, which had remember-me checked.
C22_StoredUsername ==
    storage.present =>
        /\ storage.value # NoString
        /\ Head(storage.value) \notin Whitespace
        /\ storage.value[Len(storage.value)] \notin Whitespace
        /\ lastLogin.some
        /\ lastLogin.rememberMe
        /\ \E a \in 0..Len(lastLogin.raw) : \E b \in 0..Len(lastLogin.raw) :
              /\ a + Len(storage.value) + b = Len(lastLogin.raw)
              /\ SubSeq(lastLogin.raw, a + 1, a + Len(storage.value)) = storage.value
              /\ \A i \in (1..a) \cup ((Len(lastLogin.raw) - b + 1)..Len(lastLogin.raw)) :
                    lastLogin.raw[i] \in Whitespace

C22_Witness ==
    /\ storage = Stored(UserAb)
    /\ lastLogin.some /\ lastLogin.raw = UserAbPadded /\ lastLogin.rememberMe
    /\ location = "reset"
    /\ lastEvent.kind = "settle" /\ lastEvent.form = "forgot"

ForgotSwitched == [formHidden |-> TRUE, messageHidden |-> FALSE, linkHidden |-> FALSE]

ForgotSettled(e, outcome) ==
    e.kind = "settle" /\ e.form = "forgot" /\ e.outcome = outcome

\* C23: on the reset page the form becomes hidden and the success message
\* and the link shown only in the step in which the action of a submission
\* with a valid email succeeds; a rejected submit and a failed action find
\* the form visible and leave form, message and link as they were; and once
\* the form is hidden it stays hidden as long as the document is displayed.
C23_ForgotView ==
    [][/\ (forgotView' # forgotView /\ lastEvent'.kind # "unload") =>
            /\ ForgotSettled(lastEvent', "resolve")
            /\ emailRegex(Trim(lastEvent'.raw))
       /\ ForgotSettled(lastEvent', "resolve") => forgotView' = ForgotSwitched
       /\ (\/ ForgotSettled(lastEvent', "reject")
           \/ /\ lastEvent'.kind = "submit" /\ lastEvent'.form = "forgot"
              /\ ~emailRegex(Trim(lastEvent'.data.email))) =>
            /\ ~forgotView.formHidden
            /\ forgotView' = forgotView
            /\ Calls("forgot")' = {}
       /\ (forgotView.formHidden /\ lastEvent'.kind # "unload") =>
            forgotView'.formHidden]_vars

C23_Witness ==
    /\ location = "reset"
    /\ forgotView = ForgotSwitched
    /\ lastEvent.kind = "expire"
    /\ notifications = <<>>
    /\ button["forgotBtn"] = IdleButton

====
